---- MODULE Spec2Model ----
(***************************************************************************)
(* Authentication-strategy layer of the FastAPI multi-mode application:    *)
(* strategy selection, the three strategies, the request guards, the user  *)
(* directory with its uniqueness constraints, the OAuth callback and the   *)
(* user-management handlers that change is_active.                         *)
(*                                                                         *)
(* A request is handled in steps, one per directory access: the lookup of  *)
(* authenticate, its insert (add + commit), and the handler's own read and *)
(* write.  Steps of different requests interleave freely.                  *)
(***************************************************************************)
EXTENDS Integers, Sequences, FiniteSets, TLC

VARIABLES
    settings,   \* the process-wide Settings instance (config.py:95)
    users,      \* the users table: users[i] is the row with id i
    now,        \* the clock read by the token codec
    procs,      \* per worker slot: the request being handled and its position
    resp,       \* the response of the most recently completed request
    probe,      \* what the last introspection call reported
    encryption_key,  \* os.environ["ENCRYPTION_KEY"], None while unset
    call        \* the last direct call of a library function and its result

vars == <<settings, users, now, procs, resp, probe, encryption_key, call>>

(***************************************************************************)
(* Bounds and input sets                                                   *)
(***************************************************************************)
\* The worker slots: two requests can be in flight at once.
Procs == {1, 2}

\* Python's None for an optional string, and NULL for an optional integer.
None == "None"
NoId == 0

\* GitHub logins that take part, and the numeric id GitHub gives each.
Names == {"alice", "bob"}
GitHubIdOf == [n \in Names |-> IF n = "alice" THEN 11 ELSE 12]

Truthy(s) == s # None /\ s # ""

(***************************************************************************)
(* Configuration                                                           *)
(***************************************************************************)
SINGLE_USER == "single_user"
MULTI_USER == "multi_user"

MkSettings(mode, su_auth, su_name, mu_admin, default_tok, client_id, client_secret) ==
    [app_mode |-> mode,
     enable_su_auth |-> su_auth,
     su_github_username |-> su_name,
     mu_admin_github_username |-> mu_admin,
     default_github_token |-> default_tok,
     github_client_id |-> client_id,
     github_client_secret |-> client_secret]

\* validate_github_oauth for the value v of github_client_id or
\* github_client_secret.  Validators run in field order and info.data holds
\* only the fields declared before the one being validated: app_mode is
\* there, enable_su_auth is not, so info.data.get('enable_su_auth', False)
\* is False whatever the configuration says.
validate_github_oauth(v, app_mode) ==
    LET enable_su_auth == FALSE
    IN  ~((app_mode = MULTI_USER \/ enable_su_auth) /\ ~Truthy(v))

\* Settings() succeeds: the mode is one of AppMode and every field
\* validator accepts (defaults are validated too).
SettingsValid(s) ==
    /\ s.app_mode \in {SINGLE_USER, MULTI_USER}
    /\ validate_github_oauth(s.github_client_id, s.app_mode)
    /\ validate_github_oauth(s.github_client_secret, s.app_mode)
    /\ (s.enable_su_auth => Truthy(s.su_github_username))
    /\ (s.app_mode = MULTI_USER => Truthy(s.mu_admin_github_username))

\* Settings.requires_auth
Settings_requires_auth(s) ==
    \/ s.app_mode = MULTI_USER
    \/ (s.app_mode = SINGLE_USER /\ s.enable_su_auth)

(***************************************************************************)
(* Session tokens and the token codec                                      *)
(***************************************************************************)
\* A token string as the codec sees it: not a JWT at all ("garbage"), or a
\* JWT with a signature that verifies under settings.secret_key or not, an
\* expiry and a payload.  "absent" stands for no/empty token.
\* claims are the names of the payload's entries and github_token the value
\* of the entry of that name, None when the payload has none.
MkToken(kind, sig, exp, sub) ==
    [kind |-> kind, sig |-> sig, exp |-> exp, sub |-> sub,
     github_id |-> IF sub \in Names THEN GitHubIdOf[sub] ELSE NoId,
     claims |-> IF kind = "jwt" THEN {"sub", "github_id", "exp"} ELSE {},
     github_token |-> None]

NoTok == MkToken("absent", FALSE, 0, None)

ACCESS_TOKEN_EXPIRE_MINUTES == 30

\* expires_delta = None.
NoDelta == -1

\* create_access_token at time t: "if expires_delta" is false for None and
\* for a zero timedelta, and the default expiry is used then.  The token is
\* signed with the process secret.
create_access_token(sub, expires_delta, t) ==
    MkToken("jwt", TRUE,
            IF expires_delta # NoDelta /\ expires_delta # 0
            THEN t + expires_delta
            ELSE t + ACCESS_TOKEN_EXPIRE_MINUTES,
            sub)

\* Variant: the claims read without verifying the signature.
decode_access_token_unverified(token, t) ==
    IF token.kind = "jwt" /\ ~(token.exp < t)
    THEN [ok |-> TRUE, sub |-> token.sub, github_id |-> token.github_id]
    ELSE [ok |-> FALSE, sub |-> None, github_id |-> NoId]

\* decode_access_token: the payload, or ValueError (ok = FALSE) when
\* jwt.decode raises JWTError: malformed, bad signature, or expired
\* (jose rejects a token once exp < now).
decode_access_token(token, t) ==
    IF token.kind = "jwt" /\ token.sig /\ ~(token.exp < t)
    THEN [ok |-> TRUE, sub |-> token.sub, github_id |-> token.github_id]
    ELSE [ok |-> FALSE, sub |-> None, github_id |-> NoId]

\* The clock when the model starts: late enough for a token issued at 0 to
\* have expired.
StartTime == ACCESS_TOKEN_EXPIRE_MINUTES + 1

ValidToken(n) == create_access_token(n, NoDelta, StartTime)
ExpiredToken == create_access_token("alice", NoDelta, 0)
BadSigToken == [ValidToken("alice") EXCEPT !.sig = FALSE]
NoSubToken == create_access_token(None, NoDelta, StartTime)
GarbageToken == MkToken("garbage", FALSE, 0, None)

\* The tokens requests may carry.
Tokens ==
    {GarbageToken, BadSigToken, ExpiredToken, NoSubToken}
    \cup {ValidToken(n) : n \in Names}

\* A request: the Authorization header (scheme and credentials) and the
\* access_token cookie.
MkRequest(scheme, htok, ctok) ==
    [scheme |-> scheme, authorization |-> htok, cookie |-> ctok]

Requests ==
    {MkRequest(None, NoTok, NoTok)}
    \cup {MkRequest("Bearer", t, NoTok) : t \in Tokens}
    \cup {MkRequest(None, NoTok, ValidToken(n)) : n \in Names}

\* Variant: the cookie consulted before the Authorization header.
ExtractToken_cookie_first(req) ==
    LET fromHeader == IF req.scheme = "Bearer" THEN req.authorization ELSE NoTok
    IN  IF req.cookie.kind # "absent" THEN req.cookie ELSE fromHeader

\* Lines 21-34 of both OAuth strategies: the bearer token of the
\* Authorization header, else the cookie, else nothing.
ExtractToken(req) ==
    LET fromHeader == IF req.scheme = "Bearer" THEN req.authorization ELSE NoTok
    IN  IF fromHeader.kind # "absent" THEN fromHeader ELSE req.cookie

(***************************************************************************)
(* User records and the directory                                          *)
(***************************************************************************)
\* A stored GitHub token: <<>> when the column is NULL, else the sealed value.
NoSecret == <<>>

MkRow(username, github_username, github_id, github_token, is_admin, is_active) ==
    [username |-> username, github_username |-> github_username,
     github_id |-> github_id, github_token |-> github_token,
     is_admin |-> is_admin, is_active |-> is_active]

\* A User object held by a request: the row as loaded, with its id.
UserObj(id, row) ==
    [id |-> id, username |-> row.username, github_username |-> row.github_username,
     github_id |-> row.github_id, github_token |-> row.github_token,
     is_admin |-> row.is_admin, is_active |-> row.is_active]

\* Python's None where a User is expected.
NoUser == UserObj(0, MkRow(None, None, NoId, NoSecret, FALSE, FALSE))

Ids(dir) == 1..Len(dir)

\* db.query(User).filter(User.github_username == name).first(): 0 when none.
FindByGithubUsername(dir, name) ==
    LET hits == {i \in Ids(dir) : dir[i].github_username = name}
    IN  IF hits = {} THEN 0 ELSE CHOOSE i \in hits : \A j \in hits : i <= j

\* Variant: a table without unique indexes.
UniqueOk_unconstrained(dir, row) == TRUE

\* The unique=True columns of User: an INSERT violating one raises
\* IntegrityError at commit.  NULLs never collide.
UniqueOk(dir, row) ==
    \A i \in Ids(dir) :
        /\ dir[i].username # row.username
        /\ (row.github_id # NoId => dir[i].github_id # row.github_id)
        /\ (row.github_username # None => dir[i].github_username # row.github_username)

(***************************************************************************)
(* Strategy selection                                                      *)
(***************************************************************************)
NoAuthStrategy == "NoAuthStrategy"
GitHubSUStrategy == "GitHubSUStrategy"
GitHubMUStrategy == "GitHubMUStrategy"
ValueError == "ValueError"

\* Variant: the single-user-auth flag consulted before the mode.
get_auth_strategy_flag_first(s) ==
    IF s.enable_su_auth THEN GitHubSUStrategy
    ELSE IF s.app_mode = SINGLE_USER THEN NoAuthStrategy
    ELSE IF s.app_mode = MULTI_USER THEN GitHubMUStrategy
    ELSE ValueError

get_auth_strategy(s) ==
    IF s.app_mode = SINGLE_USER
    THEN IF s.enable_su_auth THEN GitHubSUStrategy ELSE NoAuthStrategy
    ELSE IF s.app_mode = MULTI_USER THEN GitHubMUStrategy
    ELSE ValueError

NoAuth_requires_auth == FALSE
\* Variant: the single-user OAuth strategy reporting that no auth is needed.
GitHubSU_requires_auth_off == FALSE

GitHubSU_requires_auth == TRUE
GitHubMU_requires_auth == TRUE

requires_auth(strategy) ==
    CASE strategy = NoAuthStrategy -> NoAuth_requires_auth
      [] strategy = GitHubSUStrategy -> GitHubSU_requires_auth
      [] strategy = GitHubMUStrategy -> GitHubMU_requires_auth

(***************************************************************************)
(* The strategies                                                          *)
(***************************************************************************)
NoRow == MkRow(None, None, NoId, NoSecret, FALSE, FALSE)

\* How a piece of code ends: it returns (a user, or NoUser for None), it
\* raises HTTPException(status), it raises another Exception, or it stands
\* before the INSERT of row ("pending").  calls counts the directory calls.
Outcome(kind, status, user, row, calls) ==
    [kind |-> kind, status |-> status, user |-> user, row |-> row, calls |-> calls]

Return(user, calls) == Outcome("return", 200, user, NoRow, calls)
RaiseHTTP(status, calls) == Outcome("HTTPException", status, NoUser, NoRow, calls)
RaiseError(calls) == Outcome("Exception", 500, NoUser, NoRow, calls)
Pending(row, calls) == Outcome("pending", 200, NoUser, row, calls)

\* NoAuthStrategy.authenticate: the virtual user, built in memory.
VirtualUser == UserObj(1, MkRow("single_user", None, NoId, NoSecret, TRUE, TRUE))

\* Variant: the first stored record served instead of the virtual user.
NoAuth_authenticate_first_row(req, dir) ==
    IF Len(dir) = 0 THEN Return(VirtualUser, 1) ELSE Return(UserObj(1, dir[1]), 1)

NoAuth_authenticate(req, dir) == Return(VirtualUser, 0)

\* GitHubSUStrategy.authenticate, from the token to the query.
\* Variant: the record created with the column default is_admin = False.
GitHubSU_new_user_plain(username) == MkRow(username, username, NoId, NoSecret, FALSE, TRUE)

GitHubSU_new_user(username) == MkRow(username, username, NoId, NoSecret, TRUE, TRUE)

GitHubSU_try(req, dir, s, t) ==
    LET token == ExtractToken(req)
        payload == decode_access_token(token, t)
        username == payload.sub
        uid == FindByGithubUsername(dir, username)
    IN  IF ~payload.ok THEN RaiseError(0)
        ELSE IF ~Truthy(username) THEN Return(NoUser, 0)
        ELSE IF username # s.su_github_username THEN RaiseHTTP(403, 0)
        ELSE IF uid = 0 THEN Pending(GitHubSU_new_user(username), 1)
        ELSE Return(UserObj(uid, dir[uid]), 1)

\* "except Exception: return None": HTTPException is an Exception too.
GitHubSU_except(out) ==
    IF out.kind \in {"HTTPException", "Exception"} THEN Return(NoUser, out.calls) ELSE out

GitHubSU_authenticate(req, dir, s, t) ==
    IF ExtractToken(req).kind = "absent" THEN Return(NoUser, 0)
    ELSE GitHubSU_except(GitHubSU_try(req, dir, s, t))

\* GitHubMUStrategy.authenticate, from the token to the query.
\* Variant: new users always created as non-admin.
GitHubMU_is_admin_never(username, s) == FALSE

GitHubMU_is_admin(username, s) == username = s.mu_admin_github_username

GitHubMU_new_user(username, github_id, s) ==
    MkRow(username, username, github_id, NoSecret, GitHubMU_is_admin(username, s), TRUE)

\* Variant: is_admin granted on the object returned for an existing record.
GitHubMU_check_active_promotes(user, calls) ==
    IF ~user.is_active THEN RaiseHTTP(403, calls)
    ELSE Return([user EXCEPT !.is_admin = TRUE], calls)

GitHubMU_check_active(user, calls) ==
    IF ~user.is_active THEN RaiseHTTP(403, calls) ELSE Return(user, calls)

GitHubMU_try(req, dir, s, t) ==
    LET token == ExtractToken(req)
        payload == decode_access_token(token, t)
        username == payload.sub
        uid == FindByGithubUsername(dir, username)
    IN  IF ~payload.ok THEN RaiseError(0)
        ELSE IF ~Truthy(username) THEN Return(NoUser, 0)
        ELSE IF uid = 0 THEN Pending(GitHubMU_new_user(username, payload.github_id, s), 1)
        ELSE GitHubMU_check_active(UserObj(uid, dir[uid]), 1)

\* Variant: the single "except Exception" clause of the single-user strategy.
GitHubMU_except_all(out) ==
    IF out.kind \in {"HTTPException", "Exception"} THEN Return(NoUser, out.calls) ELSE out

\* "except HTTPException: raise / except Exception: return None"
GitHubMU_except(out) ==
    IF out.kind = "Exception" THEN Return(NoUser, out.calls) ELSE out

GitHubMU_authenticate(req, dir, s, t) ==
    IF ExtractToken(req).kind = "absent" THEN Return(NoUser, 0)
    ELSE GitHubMU_except(GitHubMU_try(req, dir, s, t))

\* db.add(user); db.commit(); db.refresh(user): the row gets the next id, or
\* the commit raises IntegrityError.
InsertUser(dir, row, calls) ==
    IF UniqueOk(dir, row)
    THEN Return(UserObj(Len(dir) + 1, row), calls + 1)
    ELSE RaiseError(calls + 1)

\* The rest of authenticate once the INSERT was tried.
GitHubSU_after_insert(out) == GitHubSU_except(out)

GitHubMU_after_insert(out) ==
    GitHubMU_except(IF out.kind = "return"
                    THEN GitHubMU_check_active(out.user, out.calls)
                    ELSE out)

\* strategy.authenticate(request), up to its first suspension point.
authenticate(strategy, req, dir, s, t) ==
    CASE strategy = NoAuthStrategy -> NoAuth_authenticate(req, dir)
      [] strategy = GitHubSUStrategy -> GitHubSU_authenticate(req, dir, s, t)
      [] strategy = GitHubMUStrategy -> GitHubMU_authenticate(req, dir, s, t)

after_insert(strategy, out) ==
    CASE strategy = GitHubSUStrategy -> GitHubSU_after_insert(out)
      [] strategy = GitHubMUStrategy -> GitHubMU_after_insert(out)

(***************************************************************************)
(* Guards                                                                  *)
(***************************************************************************)
\* get_login_url of the three strategies: None from NoAuth, and from the
\* OAuth strategies when no client id is configured; else the authorize URL,
\* which ends in the strategy's state parameter.
NoAuth_get_login_url(s) == None

GitHubSU_get_login_url(s) ==
    IF ~Truthy(s.github_client_id) THEN None ELSE "authorize?state=su_mode"

GitHubMU_get_login_url(s) ==
    IF ~Truthy(s.github_client_id) THEN None ELSE "authorize?state=mu_mode"

get_login_url(strategy, s) ==
    CASE strategy = NoAuthStrategy -> NoAuth_get_login_url(s)
      [] strategy = GitHubSUStrategy -> GitHubSU_get_login_url(s)
      [] strategy = GitHubMUStrategy -> GitHubMU_get_login_url(s)

GuardResult(status, user, login_url) ==
    [status |-> status, user |-> user, login_url |-> login_url]

\* Variant: require_auth without its "if not user" check.
require_auth_unchecked(strategy, out, s) ==
    IF out.kind = "HTTPException" THEN GuardResult(out.status, NoUser, None)
    ELSE GuardResult(200, out.user, None)

\* require_auth, given what authenticate came to: the status, the user
\* handed to the handler (NoUser when the request is rejected) and the login
\* URL the 401's detail names.
require_auth(strategy, out, s) ==
    IF out.kind = "HTTPException" THEN GuardResult(out.status, NoUser, None)
    ELSE IF ~requires_auth(strategy) /\ out.user # NoUser
         THEN GuardResult(200, out.user, None)
    ELSE IF out.user = NoUser THEN GuardResult(401, NoUser, get_login_url(strategy, s))
    ELSE GuardResult(200, out.user, None)

\* Variant: require_admin without its is_admin check.
require_admin_any(strategy, out, s) == require_auth(strategy, out, s)

\* require_admin on top of require_auth.
require_admin(strategy, out, s) ==
    LET r == require_auth(strategy, out, s)
    IN  IF r.status # 200 THEN r
        ELSE IF ~r.user.is_admin THEN GuardResult(403, NoUser, None)
        ELSE r

\* Variant: the users router mounted in every mode.
UsersRouterMounted_always(s) == TRUE

\* main.py: app.include_router(users.router) only in multi-user mode.
UsersRouterMounted(s) == s.app_mode = MULTI_USER

\* The guards that require_mu_mode() and require_su_mode() build: the status
\* they end with.
check_mu_mode(s) == IF s.app_mode # MULTI_USER THEN 404 ELSE 200

check_su_mode(s) == IF s.app_mode # SINGLE_USER THEN 404 ELSE 200

\* Depends(require_mu_mode): the dependency is the factory itself, so what
\* runs per request is require_mu_mode(), which builds check_mu_mode and
\* returns it uncalled.  The status it ends with.
require_mu_mode(s) == 200

(***************************************************************************)
(* External services                                                       *)
(***************************************************************************)
\* The access token GitHub hands out for a login at the code exchange.
AccessTokenOf == [n \in Names |-> IF n = "alice" THEN "gho_alice" ELSE "gho_bob"]

\* The values ENCRYPTION_KEY takes: what the environment sets, or what
\* Fernet.generate_key() returns.
Keys == {"key-1", "key-2"}

\* get_encryption_key: the environment's key, or a fresh one that is put
\* into the environment.  Returns the key; the environment holds it after.
get_encryption_key(env, fresh) == IF ~Truthy(env) THEN fresh ELSE env

\* The keys get_encryption_key can come to return.
FreshKeys(env) == IF Truthy(env) THEN {env} ELSE Keys

\* Text that is not the output of encrypt_token.
Garbage == <<"garbage">>

\* encrypt_token: "" (NoSecret) for an empty token, else the base64 of the
\* Fernet ciphertext of token under key.
encrypt_token(token, key) ==
    IF ~Truthy(token) THEN NoSecret ELSE <<"fernet", key, token>>

InvalidTokenRaised == "raised: InvalidToken"

\* Variant: decrypt_token without its try/except.
decrypt_token_unguarded(encrypted_token, key) ==
    IF encrypted_token = NoSecret THEN ""
    ELSE IF encrypted_token[1] = "fernet" /\ encrypted_token[2] = key
         THEN encrypted_token[3]
         ELSE InvalidTokenRaised

\* decrypt_token: "" for empty input, the plaintext when the input is a
\* Fernet ciphertext under key, and "" for whatever makes b64decode or
\* fernet.decrypt raise.
decrypt_token(encrypted_token, key) ==
    IF encrypted_token = NoSecret THEN ""
    ELSE IF encrypted_token[1] = "fernet" /\ encrypted_token[2] = key
         THEN encrypted_token[3]
         ELSE ""

\* create_github_oauth_token: the session JWT for a GitHub user.  token_data
\* has sub, github_id, email, avatar_url, github_token (the GitHub access
\* token itself) and type; create_access_token adds exp.
create_github_oauth_token(login, t) ==
    [create_access_token(login, NoDelta, t) EXCEPT
        !.claims = {"sub", "github_id", "email", "avatar_url", "github_token", "type", "exp"},
        !.github_token = AccessTokenOf[login]]

(***************************************************************************)
(* Requests in flight                                                      *)
(***************************************************************************)
\* A request being handled: the operation, the session token extracted from
\* the request, the path parameter, the user authenticate resolved (or the
\* record the callback found), the row about to be inserted.
MkProc(pc, op, token, target, user, row, calls, created) ==
    [pc |-> pc, op |-> op, token |-> token, target |-> target, user |-> user,
     row |-> row, calls |-> calls, created |-> created]

IdleProc == MkProc("idle", None, NoTok, 0, NoUser, NoRow, 0, FALSE)

\* A response: token is the session token the request carried, auth what
\* authenticate came to ("user", "none", "forbidden", or "skipped" when it
\* was not called), user the user the guard let through (for the callback,
\* the record written), target the record a handler body was asked to
\* change, calls the directory calls made, created whether the request
\* inserted a row, cookie the access_token cookie it set.
\* For the callback: login the GitHub login the code was exchanged for.
\* For update_user: body the is_active field of the UserUpdate sent.
\* For a GitHub route: xtoken the X-GitHub-Token header it carried,
\* credential what get_github_token resolved, client whether the handler
\* went on to call the GitHub client.  login_url is the login URL a 401 of
\* require_auth names in its detail.
MkResp(op, token, target, auth, status, user, calls, created, cookie) ==
    [op |-> op, token |-> token, target |-> target, auth |-> auth, status |-> status,
     user |-> user, calls |-> calls, created |-> created, cookie |-> cookie,
     xtoken |-> None, credential |-> None, client |-> FALSE, login_url |-> None,
     login |-> None, body |-> "unset"]

NoResp == MkResp(None, NoTok, 0, "skipped", 0, NoUser, 0, FALSE, NoTok)

\* What an introspection call reported: the strategy get_auth_strategy chose
\* for the request carrying token, and the requires_auth value returned.
MkProbe(endpoint, token, strategy, req_auth) ==
    [endpoint |-> endpoint, token |-> token, strategy |-> strategy,
     requires_auth |-> req_auth]

NoProbe == MkProbe(None, NoTok, None, FALSE)

\* A direct call: the function, its argument, the clock and the key it ran
\* with, and what it returned.
MkCall(fn, arg, at, key, result) ==
    [fn |-> fn, arg |-> arg, at |-> at, key |-> key, result |-> result]

NoCall == MkCall(None, None, 0, None, None)

AuthResult(out) ==
    IF out.kind = "HTTPException" THEN "forbidden"
    ELSE IF out.user = NoUser THEN "none" ELSE "user"

Reply(p, r) ==
    /\ resp' = r
    /\ procs' = [procs EXCEPT ![p] = IdleProc]

\* The guard of the route and, for a user-management route, the hand-over to
\* the handler body.
AfterAuth(p, op, token, target, out, created) ==
    LET strategy == get_auth_strategy(settings)
        r == IF op = "require_auth" THEN require_auth(strategy, out, settings)
             ELSE require_admin(strategy, out, settings)
    IN  IF op \in {"require_auth", "require_admin"} \/ r.status # 200
        THEN Reply(p, [MkResp(op, token, 0, AuthResult(out), r.status, r.user,
                              out.calls, created, NoTok)
                          EXCEPT !.login_url = r.login_url])
        ELSE /\ procs' = [procs EXCEPT ![p] =
                    MkProc("handler", op, token, target, r.user, NoRow, out.calls, created)]
             /\ UNCHANGED resp

\* The dependencies of a route: the strategy's authenticate up to its INSERT.
StartAuth(p, op, req, target) ==
    LET strategy == get_auth_strategy(settings)
        out == authenticate(strategy, req, users, settings, now)
    IN  IF out.kind = "pending"
        THEN /\ procs' = [procs EXCEPT ![p] =
                    MkProc("insert", op, ExtractToken(req), target, NoUser, out.row,
                           out.calls, FALSE)]
             /\ UNCHANGED resp
        ELSE AfterAuth(p, op, ExtractToken(req), target, out, FALSE)

(***************************************************************************)
(* The credential resolver and the GitHub routes                           *)
(***************************************************************************)
\* Variant: the default token returned in whatever mode it is configured.
get_github_token_default_any_mode(s, current_user, x_github_token, key) ==
    IF Truthy(s.default_github_token) THEN s.default_github_token
    ELSE IF current_user # NoUser /\ current_user.github_token # NoSecret
         THEN decrypt_token(current_user.github_token, key)
    ELSE IF Truthy(x_github_token) THEN x_github_token
    ELSE None

\* Variant: the X-GitHub-Token header honoured only for a resolved user.
get_github_token_session_only(s, current_user, x_github_token, key) ==
    IF /\ s.app_mode = SINGLE_USER /\ ~s.enable_su_auth
       /\ Truthy(s.default_github_token)
    THEN s.default_github_token
    ELSE IF current_user = NoUser THEN None
    ELSE IF current_user.github_token # NoSecret
         THEN decrypt_token(current_user.github_token, key)
    ELSE IF Truthy(x_github_token) THEN x_github_token
    ELSE None

\* Variant: the X-GitHub-Token header used when the stored token opens to "".
get_github_token_header_fallback(s, current_user, x_github_token, key) ==
    IF /\ s.app_mode = SINGLE_USER /\ ~s.enable_su_auth
       /\ Truthy(s.default_github_token)
    THEN s.default_github_token
    ELSE IF /\ current_user # NoUser /\ current_user.github_token # NoSecret
            /\ Truthy(decrypt_token(current_user.github_token, key))
         THEN decrypt_token(current_user.github_token, key)
    ELSE IF Truthy(x_github_token) THEN x_github_token
    ELSE None

\* Variant: the X-GitHub-Token header consulted before the stored token.
get_github_token_header_first(s, current_user, x_github_token, key) ==
    IF /\ s.app_mode = SINGLE_USER /\ ~s.enable_su_auth
       /\ Truthy(s.default_github_token)
    THEN s.default_github_token
    ELSE IF Truthy(x_github_token) THEN x_github_token
    ELSE IF current_user # NoUser /\ current_user.github_token # NoSecret
         THEN decrypt_token(current_user.github_token, key)
    ELSE None

\* get_github_token, given the user get_current_user resolved.
get_github_token(s, current_user, x_github_token, key) ==
    IF /\ s.app_mode = SINGLE_USER /\ ~s.enable_su_auth
       /\ Truthy(s.default_github_token)
    THEN s.default_github_token
    ELSE IF current_user # NoUser /\ current_user.github_token # NoSecret
         THEN decrypt_token(current_user.github_token, key)
    ELSE IF Truthy(x_github_token) THEN x_github_token
    ELSE None

\* get_github_token gets as far as decrypt_token (and get_encryption_key).
OpensVault(s, current_user) ==
    /\ ~(/\ s.app_mode = SINGLE_USER /\ ~s.enable_su_auth
         /\ Truthy(s.default_github_token))
    /\ current_user # NoUser /\ current_user.github_token # NoSecret

\* require_github_token, given what get_github_token resolved.
require_github_token(github_token) ==
    IF ~Truthy(github_token) THEN 400 ELSE 200

\* The handlers of api/v1/github.py that refuse to run without a credential.
MandatoryRoutes ==
    {"create_repository", "delete_repository", "create_or_update_file", "create_branch"}

\* GET /github/user without and with the username parameter.
UserInfoRoutes == {"get_github_user", "get_github_user(username)"}

\* The handlers that pass whatever was resolved to the GitHub client.
\* get_user_stats, get_repository, get_repository_contents, get_file_content,
\* get_branches, get_commits and get_rate_limit have the same shape.
OptionalRoutes == {"get_repositories"}

GitHubRoutes == MandatoryRoutes \cup UserInfoRoutes \cup OptionalRoutes

\* What the response is when the GitHub client was called: upstream_ok says
\* whether GitHub answered with success.  delete_repo and create_branch
\* return False on an HTTP error and the handler answers 400; elsewhere the
\* error propagates and becomes a 500.
AfterClient(route, upstream_ok) ==
    [status |-> IF upstream_ok THEN 200
                ELSE IF route \in {"delete_repository", "create_branch"} THEN 400
                ELSE 500,
     client |-> TRUE]

\* The body of a handler of api/v1/github.py, given the resolved credential.
GitHubHandler(route, github_token, upstream_ok) ==
    IF route \in MandatoryRoutes
    THEN IF ~Truthy(github_token) THEN [status |-> 401, client |-> FALSE]
         ELSE AfterClient(route, upstream_ok)
    ELSE IF route = "get_github_user"
    THEN IF ~Truthy(github_token) THEN [status |-> 400, client |-> FALSE]
         ELSE AfterClient(route, upstream_ok)
    ELSE AfterClient(route, upstream_ok)

\* Depends(get_github_token) once get_current_user has come to out, then
\* the handler.  An HTTPException of authenticate ends the request.
AfterCurrentUser(op, token, xtoken, out, created, upstream_ok, fresh) ==
    LET key == get_encryption_key(encryption_key, fresh)
        github_token == get_github_token(settings, out.user, xtoken, key)
        h == GitHubHandler(op, github_token, upstream_ok)
    IN  IF out.kind = "HTTPException"
        THEN /\ resp' = [MkResp(op, token, 0, AuthResult(out), out.status, NoUser,
                                out.calls, created, NoTok) EXCEPT !.xtoken = xtoken]
             /\ UNCHANGED encryption_key
        ELSE /\ resp' = [MkResp(op, token, 0, AuthResult(out), h.status, out.user,
                                out.calls, created, NoTok)
                            EXCEPT !.xtoken = xtoken, !.credential = github_token,
                                   !.client = h.client]
             /\ encryption_key' = IF OpensVault(settings, out.user) THEN key
                                  ELSE encryption_key

(***************************************************************************)
(* Actions                                                                 *)
(***************************************************************************)
\* A route behind Depends(require_auth).
RequireAuth(p, req) ==
    /\ procs[p].pc = "idle"
    /\ StartAuth(p, "require_auth", req, 0)
    /\ UNCHANGED <<settings, users, now, probe, encryption_key, call>>

\* authenticate's db.add / db.commit / db.refresh, then the rest of the
\* strategy and the guard.
AuthInsert(p) ==
    LET pr == procs[p]
        strategy == get_auth_strategy(settings)
        ins == InsertUser(users, pr.row, pr.calls)
    IN  /\ pr.pc = "insert"
        /\ users' = IF ins.kind = "return" THEN Append(users, pr.row) ELSE users
        /\ AfterAuth(p, pr.op, pr.token, pr.target, after_insert(strategy, ins),
                     ins.kind = "return")
        /\ UNCHANGED <<settings, now, probe, encryption_key, call>>

\* A route behind Depends(require_admin).
RequireAdmin(p, req) ==
    /\ procs[p].pc = "idle"
    /\ StartAuth(p, "require_admin", req, 0)
    /\ UNCHANGED <<settings, users, now, probe, encryption_key, call>>

\* POST /users/{user_id}/deactivate and /activate: the route exists when the
\* users router is mounted; then its dependencies run.
UserAdminRequest(p, op, req, user_id) ==
    /\ procs[p].pc = "idle"
    /\ IF ~UsersRouterMounted(settings) \/ require_mu_mode(settings) # 200
       THEN Reply(p, MkResp(op, ExtractToken(req), 0, "skipped", 404, NoUser, 0,
                            FALSE, NoTok))
       ELSE StartAuth(p, op, req, user_id)
    /\ UNCHANGED <<settings, users, now, probe, encryption_key, call>>

DeactivateUser(p, req, user_id) == UserAdminRequest(p, "deactivate", req, user_id)

ActivateUser(p, req, user_id) == UserAdminRequest(p, "activate", req, user_id)

HandlerReply(p, status) ==
    LET pr == procs[p]
    IN  Reply(p, MkResp(pr.op, pr.token, pr.target, "user", status, pr.user,
                        pr.calls + 1, pr.created, NoTok))

\* The handler bodies of api/v1/users.py: the status they answer and the
\* directory they leave, given the directory, the user the guard let through
\* and the path parameter.
HandlerResult(status, dir) == [status |-> status, users |-> dir]

list_users(dir, current_user) == HandlerResult(200, dir)

get_user(dir, current_user, user_id) ==
    IF ~current_user.is_admin /\ current_user.id # user_id THEN HandlerResult(403, dir)
    ELSE IF user_id \notin Ids(dir) THEN HandlerResult(404, dir)
    ELSE HandlerResult(200, dir)

\* Variant: is_active of the body written whoever sends it.
update_user_keeps_is_active(dir, current_user, user_id, is_active) ==
    IF ~current_user.is_admin /\ current_user.id # user_id THEN HandlerResult(403, dir)
    ELSE IF user_id \notin Ids(dir) THEN HandlerResult(404, dir)
    ELSE IF is_active # "unset"
         THEN HandlerResult(200, [dir EXCEPT ![user_id].is_active = (is_active = "true")])
    ELSE HandlerResult(200, dir)

\* update_user: is_active is "unset" when the body does not carry the field;
\* email and github_avatar_url are columns the model does not keep.
update_user(dir, current_user, user_id, is_active) ==
    IF ~current_user.is_admin /\ current_user.id # user_id THEN HandlerResult(403, dir)
    ELSE IF user_id \notin Ids(dir) THEN HandlerResult(404, dir)
    ELSE IF is_active # "unset" /\ current_user.is_admin
         THEN HandlerResult(200, [dir EXCEPT ![user_id].is_active = (is_active = "true")])
    ELSE HandlerResult(200, dir)

\* Variant: deactivation by db.delete(user).
deactivate_user_hard_delete(dir, current_user, user_id) ==
    IF current_user.id = user_id THEN HandlerResult(400, dir)
    ELSE IF user_id \notin Ids(dir) THEN HandlerResult(404, dir)
    ELSE HandlerResult(200, SelectSeq(dir, LAMBDA row : row # dir[user_id]))

deactivate_user(dir, current_user, user_id) ==
    IF current_user.id = user_id THEN HandlerResult(400, dir)
    ELSE IF user_id \notin Ids(dir) THEN HandlerResult(404, dir)
    ELSE HandlerResult(200, [dir EXCEPT ![user_id].is_active = FALSE])

activate_user(dir, current_user, user_id) ==
    IF user_id \notin Ids(dir) THEN HandlerResult(404, dir)
    ELSE HandlerResult(200, [dir EXCEPT ![user_id].is_active = TRUE])

make_admin(dir, current_user, user_id) ==
    IF user_id \notin Ids(dir) THEN HandlerResult(404, dir)
    ELSE IF dir[user_id].is_admin THEN HandlerResult(400, dir)
    ELSE HandlerResult(200, [dir EXCEPT ![user_id].is_admin = TRUE])

remove_admin(dir, current_user, user_id) ==
    IF current_user.id = user_id THEN HandlerResult(400, dir)
    ELSE IF user_id \notin Ids(dir) THEN HandlerResult(404, dir)
    ELSE IF ~dir[user_id].is_admin THEN HandlerResult(400, dir)
    ELSE HandlerResult(200, [dir EXCEPT ![user_id].is_admin = FALSE])

get_user_stats(dir, current_user) == HandlerResult(200, dir)

\* deactivate_user: the handler body.
DeactivateHandler(p) ==
    LET pr == procs[p]
        h == deactivate_user(users, pr.user, pr.target)
    IN  /\ pr.pc = "handler" /\ pr.op = "deactivate"
        /\ users' = h.users
        /\ HandlerReply(p, h.status)
        /\ UNCHANGED <<settings, now, probe, encryption_key, call>>

\* activate_user: the handler body.
ActivateHandler(p) ==
    LET pr == procs[p]
        h == activate_user(users, pr.user, pr.target)
    IN  /\ pr.pc = "handler" /\ pr.op = "activate"
        /\ users' = h.users
        /\ HandlerReply(p, h.status)
        /\ UNCHANGED <<settings, now, probe, encryption_key, call>>

\* Variant: the callback re-evaluating is_admin and is_active of the record
\* it found.
CallbackUpdate_resets_flags(row, new) ==
    [row EXCEPT !.github_token = new.github_token, !.is_admin = new.is_admin,
                !.is_active = new.is_active]

\* The "else" branch of github_callback: the columns of the record found
\* that it writes (email, avatar and last_login are not kept).
CallbackUpdate(row, new) == [row EXCEPT !.github_token = new.github_token]

\* github_callback: is_admin of a record it creates.
Callback_is_admin(login, s) ==
    IF s.app_mode = SINGLE_USER THEN TRUE
    ELSE IF s.app_mode = MULTI_USER THEN login = s.mu_admin_github_username
    ELSE FALSE

Callback_new_user(login, s, key) ==
    MkRow(login, login, GitHubIdOf[login], encrypt_token(AccessTokenOf[login], key),
          Callback_is_admin(login, s), TRUE)

CallbackReply(p, gh_login, status, user, calls, created, cookie) ==
    Reply(p, [MkResp("callback", NoTok, 0, "skipped", status, user, calls, created, cookie)
                EXCEPT !.login = gh_login])

\* github_callback up to its query: the code exchange and GET /user succeed
\* for login (exchanged) or fail, then the single-user check and the lookup.
\* The row holds what the callback is about to write, the sealed access
\* token included (fresh is the key generated if the environment has none).
GithubCallback(p, login, exchanged, fresh) ==
    LET uid == FindByGithubUsername(users, login)
        found == IF uid = 0 THEN NoUser ELSE UserObj(uid, users[uid])
        key == get_encryption_key(encryption_key, fresh)
    IN  /\ procs[p].pc = "idle"
        /\ IF ~exchanged
           THEN CallbackReply(p, login, 500, NoUser, 0, FALSE, NoTok) /\ UNCHANGED encryption_key
           ELSE IF /\ settings.app_mode = SINGLE_USER
                   /\ settings.enable_su_auth
                   /\ login # settings.su_github_username
           THEN CallbackReply(p, login, 403, NoUser, 0, FALSE, NoTok) /\ UNCHANGED encryption_key
           ELSE /\ procs' = [procs EXCEPT ![p] =
                       MkProc("callback", "callback", NoTok, 0, found,
                              Callback_new_user(login, settings, key), 1, FALSE)]
                /\ encryption_key' = key
                /\ UNCHANGED resp
        /\ UNCHANGED <<settings, users, now, probe, call>>

\* github_callback from db.add / the field updates to the redirect.
CallbackCommit(p) ==
    LET pr == procs[p]
        ins == InsertUser(users, pr.row, pr.calls)
        cookie == create_github_oauth_token(pr.row.github_username, now)
    IN  /\ pr.pc = "callback"
        /\ IF pr.user = NoUser
           THEN IF ins.kind = "return"
                THEN /\ users' = Append(users, pr.row)
                     /\ CallbackReply(p, pr.row.github_username, 302, ins.user, ins.calls, TRUE, cookie)
                ELSE /\ UNCHANGED users
                     /\ CallbackReply(p, pr.row.github_username, 500, NoUser, ins.calls, FALSE, NoTok)
           ELSE /\ users' = [users EXCEPT ![pr.user.id] =
                                  CallbackUpdate(users[pr.user.id], pr.row)]
                /\ CallbackReply(p, pr.row.github_username, 302,
                                 UserObj(pr.user.id, users'[pr.user.id]),
                                 pr.calls + 1, FALSE, cookie)
        /\ UNCHANGED <<settings, now, probe, encryption_key, call>>

(***************************************************************************)
(* The request-handling system                                             *)
(***************************************************************************)
\* The user_id path parameters tried.
MaxUserId == 2
UserIds == 1..MaxUserId

\* The configurations the system is run under: one per mode of the matrix.
SUNoAuthConfig == MkSettings(SINGLE_USER, FALSE, None, None, None, None, None)
SUAuthConfig ==
    MkSettings(SINGLE_USER, TRUE, "alice", None, None, "client-id", "client-secret")
MUConfig ==
    MkSettings(MULTI_USER, FALSE, None, "alice", None, "client-id", "client-secret")

MainConfigs == {SUNoAuthConfig, SUAuthConfig, MUConfig}

Init ==
    /\ settings \in {s \in MainConfigs : SettingsValid(s)}
    /\ users = <<>>
    /\ now = StartTime
    /\ procs = [p \in Procs |-> IdleProc]
    /\ resp = NoResp
    /\ probe = NoProbe
    /\ encryption_key = "key-1"
    /\ call = NoCall

Next ==
    \/ \E p \in Procs, req \in Requests : RequireAuth(p, req)
    \/ \E p \in Procs : AuthInsert(p)
    \/ \E p \in Procs, req \in Requests, id \in UserIds : DeactivateUser(p, req, id)
    \/ \E p \in Procs, req \in Requests, id \in UserIds : ActivateUser(p, req, id)
    \/ \E p \in Procs : DeactivateHandler(p)
    \/ \E p \in Procs : ActivateHandler(p)
    \/ \E p \in Procs, login \in Names, exchanged \in BOOLEAN,
          fresh \in FreshKeys(encryption_key) :
            GithubCallback(p, login, exchanged, fresh)
    \/ \E p \in Procs : CallbackCommit(p)

Spec == Init /\ [][Next]_vars

(***************************************************************************)
(* Strategy selection over all configurations                              *)
(***************************************************************************)
\* Depends(get_auth_strategy) for a request, followed by the
\* auth_strategy.requires_auth() call of auth_status.  A mode outside AppMode
\* makes get_auth_strategy raise, and nothing is called on a strategy.
SelectStrategy(req) ==
    LET strategy == get_auth_strategy(settings)
    IN  /\ probe' = MkProbe("status", ExtractToken(req), strategy,
                            IF strategy = ValueError THEN FALSE
                            ELSE requires_auth(strategy))
        /\ UNCHANGED <<settings, users, now, procs, resp, encryption_key, call>>

\* GET /config: "requires_auth": settings.requires_auth.
GetConfig ==
    /\ probe' = MkProbe("config", NoTok, None, Settings_requires_auth(settings))
    /\ UNCHANGED <<settings, users, now, procs, resp, encryption_key, call>>

\* GET /api/v1/auth/login: 400 when the settings require no authentication,
\* 500 "GitHub OAuth not configured" when github_client_id is empty, else
\* the authorize URL with state = app_mode.
login(s) ==
    IF ~Settings_requires_auth(s) THEN GuardResult(400, NoUser, None)
    ELSE IF ~Truthy(s.github_client_id) THEN GuardResult(500, NoUser, None)
    ELSE GuardResult(200, NoUser,
                     IF s.app_mode = MULTI_USER THEN "authorize?state=multi_user"
                     ELSE "authorize?state=single_user")

Login ==
    LET r == login(settings)
    IN  /\ resp' = [MkResp("login", NoTok, 0, "skipped", r.status, NoUser, 0, FALSE, NoTok)
                       EXCEPT !.login_url = r.login_url]
        /\ UNCHANGED <<settings, users, now, procs, probe, encryption_key, call>>

\* Every configuration the validators accept, and, for get_auth_strategy's
\* last branch, a mode value outside AppMode.
OtherMode == "other"

AllSettings ==
    {MkSettings(mode, su_auth, su_name, mu_admin, default_tok, client_id, client_secret) :
        mode \in {SINGLE_USER, MULTI_USER, OtherMode},
        su_auth \in BOOLEAN,
        su_name \in {None, "alice"},
        mu_admin \in {None, "alice"},
        default_tok \in {None, "tok-A"},
        client_id \in {None, "client-id"},
        client_secret \in {None, "client-secret"}}

\* Directories the selection is made over.
SomeDirectories ==
    {<<>>,
     <<MkRow("alice", "alice", GitHubIdOf["alice"], NoSecret, TRUE, TRUE)>>,
     <<MkRow("bob", "bob", GitHubIdOf["bob"], NoSecret, FALSE, FALSE)>>}

InitSel ==
    /\ settings \in {s \in AllSettings : SettingsValid(s) \/ s.app_mode = OtherMode}
    /\ users \in SomeDirectories
    /\ now = StartTime
    /\ procs = [p \in Procs |-> IdleProc]
    /\ resp = NoResp
    /\ probe = NoProbe
    /\ encryption_key = "key-1"
    /\ call = NoCall

NextSel ==
    \/ \E req \in Requests : SelectStrategy(req)
    \/ GetConfig
    \/ Login

SpecSel == InitSel /\ [][NextSel]_vars

(***************************************************************************)
(* The token codec over time                                               *)
(***************************************************************************)
\* The largest explicit expires_delta tried, and the last clock value.
MaxDelta == 2
Deltas == {NoDelta} \cup (0..MaxDelta)
MaxTime == ACCESS_TOKEN_EXPIRE_MINUTES + MaxDelta + 1

CodecCalls == {"create_access_token", "sign_with_other_secret", "decode_access_token"}

\* create_access_token({"sub": sub, ...}, expires_delta) at the current time.
IssueToken(sub, expires_delta) ==
    /\ call' = MkCall("create_access_token",
                      [sub |-> sub, expires_delta |-> expires_delta, issued |-> now,
                       token |-> create_access_token(sub, expires_delta, now)],
                      now, None, None)
    /\ UNCHANGED <<settings, users, now, procs, resp, probe, encryption_key>>

\* The same header and payload signed with a secret other than
\* settings.secret_key.
SignWithOtherSecret ==
    /\ call.fn = "create_access_token"
    /\ call' = [call EXCEPT !.fn = "sign_with_other_secret", !.arg.token.sig = FALSE]
    /\ UNCHANGED <<settings, users, now, procs, resp, probe, encryption_key>>

\* decode_access_token(token) at the current time.
DecodeToken ==
    /\ call.fn \in CodecCalls
    /\ call' = [call EXCEPT !.fn = "decode_access_token", !.at = now,
                            !.result = decode_access_token(call.arg.token, now)]
    /\ UNCHANGED <<settings, users, now, procs, resp, probe, encryption_key>>

\* datetime.utcnow() advances.
Tick ==
    /\ now < MaxTime
    /\ now' = now + 1
    /\ UNCHANGED <<settings, users, procs, resp, probe, encryption_key, call>>

InitCodec ==
    /\ settings = MUConfig
    /\ users = <<>>
    /\ now = 0
    /\ procs = [p \in Procs |-> IdleProc]
    /\ resp = NoResp
    /\ probe = NoProbe
    /\ encryption_key = "key-1"
    /\ call = NoCall

NextCodec ==
    \/ \E sub \in Names \cup {None}, d \in Deltas : IssueToken(sub, d)
    \/ SignWithOtherSecret
    \/ DecodeToken
    \/ Tick

SpecCodec == InitCodec /\ [][NextCodec]_vars

(***************************************************************************)
(* The credential vault                                                    *)
(***************************************************************************)
Plaintexts == {"", "gho_alice", "gho_bob"}

VaultCalls == {"encrypt_token", "corrupt", "decrypt_token"}

\* encrypt_token(token).  arg keeps the plaintext, the stored text and the
\* key the text was sealed under.
EncryptToken(token, fresh) ==
    LET key == get_encryption_key(encryption_key, fresh)
    IN  /\ encryption_key' = IF ~Truthy(token) THEN encryption_key ELSE key
        /\ call' = MkCall("encrypt_token",
                          [plain |-> token, stored |-> encrypt_token(token, key),
                           sealed_with |-> key],
                          now, key, encrypt_token(token, key))
        /\ UNCHANGED <<settings, users, now, procs, resp, probe>>

\* The stored text is damaged at rest.
CorruptStored ==
    /\ call.fn = "encrypt_token"
    /\ call' = [call EXCEPT !.fn = "corrupt", !.arg.stored = Garbage]
    /\ UNCHANGED <<settings, users, now, procs, resp, probe, encryption_key>>

\* The process restarts with another ENCRYPTION_KEY, or with none.
RestartWithKey(k) ==
    /\ encryption_key' = k
    /\ UNCHANGED <<settings, users, now, procs, resp, probe, call>>

\* decrypt_token(stored text).
DecryptToken(fresh) ==
    LET empty == call.arg.stored = NoSecret
        key == get_encryption_key(encryption_key, fresh)
    IN  /\ call.fn \in VaultCalls
        /\ encryption_key' = IF empty THEN encryption_key ELSE key
        /\ call' = [call EXCEPT !.fn = "decrypt_token", !.key = key,
                                !.result = decrypt_token(call.arg.stored, key)]
        /\ UNCHANGED <<settings, users, now, procs, resp, probe>>

InitVault ==
    /\ settings = MUConfig
    /\ users = <<>>
    /\ now = StartTime
    /\ procs = [p \in Procs |-> IdleProc]
    /\ resp = NoResp
    /\ probe = NoProbe
    /\ encryption_key \in Keys \cup {None}
    /\ call = NoCall

NextVault ==
    \/ \E token \in Plaintexts, fresh \in Keys : EncryptToken(token, fresh)
    \/ CorruptStored
    \/ \E k \in Keys \cup {None} : RestartWithKey(k)
    \/ \E fresh \in Keys : DecryptToken(fresh)

SpecVault == InitVault /\ [][NextVault]_vars

(***************************************************************************)
(* The GitHub proxy routes                                                 *)
(***************************************************************************)
\* A route of api/v1/github.py: Depends(get_current_user), the resolver and
\* the handler.  authenticate's lookup and INSERT are taken in one step here
\* (there is no await between them); their interleavings across workers are
\* what Spec explores.
GitHubRoute(op, req, xtoken, upstream_ok, fresh) ==
    LET strategy == get_auth_strategy(settings)
        first == authenticate(strategy, req, users, settings, now)
        ins == InsertUser(users, first.row, first.calls)
        inserted == first.kind = "pending" /\ ins.kind = "return"
        out == IF first.kind = "pending" THEN after_insert(strategy, ins) ELSE first
    IN  /\ users' = IF inserted THEN Append(users, first.row) ELSE users
        /\ AfterCurrentUser(op, ExtractToken(req), xtoken, out, inserted,
                            upstream_ok, fresh)
        /\ UNCHANGED <<settings, now, procs, probe, call>>

\* The X-GitHub-Token headers tried: absent, or a token.
XTokens == {None, "ghp_header"}

\* Each mode of the matrix, without and with a default GitHub token.
GhConfigs ==
    {[c EXCEPT !.default_github_token = d] : c \in MainConfigs, d \in {None, "tok-A"}}

\* Directories with stored tokens: none; alice's sealed under the key in
\* use; alice's sealed under another key; alice without a token and bob
\* deactivated; alice's column corrupted.
GhDirectories ==
    {<<>>,
     <<MkRow("alice", "alice", GitHubIdOf["alice"],
             encrypt_token(AccessTokenOf["alice"], "key-1"), TRUE, TRUE)>>,
     <<MkRow("alice", "alice", GitHubIdOf["alice"],
             encrypt_token(AccessTokenOf["alice"], "key-2"), TRUE, TRUE)>>,
     <<MkRow("alice", "alice", NoId, NoSecret, TRUE, TRUE),
       MkRow("bob", "bob", GitHubIdOf["bob"],
             encrypt_token(AccessTokenOf["bob"], "key-1"), FALSE, FALSE)>>,
     <<MkRow("alice", "alice", GitHubIdOf["alice"], Garbage, TRUE, TRUE)>>}

InitGh ==
    /\ settings \in {s \in GhConfigs : SettingsValid(s)}
    /\ users \in GhDirectories
    /\ now = StartTime
    /\ procs = [p \in Procs |-> IdleProc]
    /\ resp = NoResp
    /\ probe = NoProbe
    /\ encryption_key = "key-1"
    /\ call = NoCall

NextGh ==
    \E op \in GitHubRoutes, req \in Requests, xtoken \in XTokens,
       upstream_ok \in BOOLEAN, fresh \in FreshKeys(encryption_key) :
        GitHubRoute(op, req, xtoken, upstream_ok, fresh)

SpecGh == InitGh /\ [][NextGh]_vars

(***************************************************************************)
(* The guards over more configurations                                     *)
(***************************************************************************)
\* The main configurations, and single-user mode with auth enabled but no
\* OAuth client configured (which the validators accept).
SUAuthNoClientConfig == MkSettings(SINGLE_USER, TRUE, "alice", None, None, None, None)

GuardConfigs == MainConfigs \cup {SUAuthNoClientConfig}

GuardDirectories ==
    {<<>>,
     <<MkRow("alice", "alice", GitHubIdOf["alice"], NoSecret, TRUE, TRUE)>>,
     <<MkRow("alice", "alice", GitHubIdOf["alice"], NoSecret, TRUE, TRUE),
       MkRow("bob", "bob", GitHubIdOf["bob"], NoSecret, FALSE, TRUE)>>,
     <<MkRow("bob", "bob", GitHubIdOf["bob"], NoSecret, FALSE, FALSE)>>}

InitGuard ==
    /\ settings \in {s \in GuardConfigs : SettingsValid(s)}
    /\ users \in GuardDirectories
    /\ now = StartTime
    /\ procs = [p \in Procs |-> IdleProc]
    /\ resp = NoResp
    /\ probe = NoProbe
    /\ encryption_key = "key-1"
    /\ call = NoCall

NextGuard ==
    \/ \E p \in Procs, req \in Requests : RequireAuth(p, req)
    \/ \E p \in Procs, req \in Requests : RequireAdmin(p, req)
    \/ \E p \in Procs : AuthInsert(p)

SpecGuard == InitGuard /\ [][NextGuard]_vars

(***************************************************************************)
(* The user-management routes, one request at a time                       *)
(***************************************************************************)
\* The routes of api/v1/users.py behind Depends(require_mu_mode): those
\* guarded by require_admin and those guarded by require_auth.
AdminOps ==
    {"list_users", "deactivate_user", "activate_user", "make_admin", "remove_admin",
     "get_user_stats"}

AuthOps == {"get_user", "update_user"}

UserOps == AdminOps \cup AuthOps

\* The routes without a user_id path parameter.
CollectionOps == {"list_users", "get_user_stats"}

\* The is_active field of a UserUpdate body.
Updates == {"unset", "true", "false"}

UsersHandler(op, dir, current_user, user_id, is_active) ==
    CASE op = "list_users" -> list_users(dir, current_user)
      [] op = "get_user" -> get_user(dir, current_user, user_id)
      [] op = "update_user" -> update_user(dir, current_user, user_id, is_active)
      [] op = "deactivate_user" -> deactivate_user(dir, current_user, user_id)
      [] op = "activate_user" -> activate_user(dir, current_user, user_id)
      [] op = "make_admin" -> make_admin(dir, current_user, user_id)
      [] op = "remove_admin" -> remove_admin(dir, current_user, user_id)
      [] op = "get_user_stats" -> get_user_stats(dir, current_user)

\* A user-management request from routing to response, with no other
\* request in between: the route exists when the router is mounted; then
\* Depends(require_mu_mode), the auth guard (authenticate's INSERT included)
\* and the handler body.
UsersRoute(op, req, user_id, is_active) ==
    LET strategy == get_auth_strategy(settings)
        token == ExtractToken(req)
        first == authenticate(strategy, req, users, settings, now)
        ins == InsertUser(users, first.row, first.calls)
        inserted == first.kind = "pending" /\ ins.kind = "return"
        out == IF first.kind = "pending" THEN after_insert(strategy, ins) ELSE first
        dir == IF inserted THEN Append(users, first.row) ELSE users
        r == IF op \in AdminOps THEN require_admin(strategy, out, settings)
             ELSE require_auth(strategy, out, settings)
        h == UsersHandler(op, dir, r.user, user_id, is_active)
    IN  /\ IF ~UsersRouterMounted(settings) \/ require_mu_mode(settings) # 200
           THEN /\ resp' = MkResp(op, token, 0, "skipped", 404, NoUser, 0, FALSE, NoTok)
                /\ UNCHANGED users
           ELSE IF r.status # 200
           THEN /\ resp' = [MkResp(op, token, 0, AuthResult(out), r.status, r.user,
                                   out.calls, inserted, NoTok)
                               EXCEPT !.login_url = r.login_url, !.body = is_active]
                /\ users' = dir
           ELSE /\ resp' = [MkResp(op, token, user_id, AuthResult(out), h.status, r.user,
                                   out.calls + 1, inserted, NoTok)
                               EXCEPT !.body = is_active]
                /\ users' = h.users
        /\ UNCHANGED <<settings, now, procs, probe, encryption_key, call>>

\* A call of the guard that require_mu_mode() or require_su_mode() returns.
CallModeGuard(guard) ==
    /\ call' = MkCall(guard, settings.app_mode, now, None,
                      IF guard = "check_mu_mode" THEN check_mu_mode(settings)
                      ELSE check_su_mode(settings))
    /\ UNCHANGED <<settings, users, now, procs, resp, probe, encryption_key>>

InitUsers ==
    /\ settings \in {s \in MainConfigs : SettingsValid(s)}
    /\ users \in GuardDirectories
    /\ now = StartTime
    /\ procs = [p \in Procs |-> IdleProc]
    /\ resp = NoResp
    /\ probe = NoProbe
    /\ encryption_key = "key-1"
    /\ call = NoCall

NextUsers ==
    \/ \E op \in UserOps, req \in Requests :
          \E user_id \in (IF op \in CollectionOps THEN {0} ELSE UserIds),
             is_active \in (IF op = "update_user" THEN Updates ELSE {"unset"}) :
              UsersRoute(op, req, user_id, is_active)
    \/ \E guard \in {"check_mu_mode", "check_su_mode"} : CallModeGuard(guard)

SpecUsers == InitUsers /\ [][NextUsers]_vars

(***************************************************************************)
(* The core operations on the directory, one request at a time             *)
(***************************************************************************)
\* GET /api/v1/auth/me: Depends(get_current_user), so authenticate with its
\* INSERT, and 401 when it returned None.
MeRoute(req) ==
    LET strategy == get_auth_strategy(settings)
        first == authenticate(strategy, req, users, settings, now)
        ins == InsertUser(users, first.row, first.calls)
        inserted == first.kind = "pending" /\ ins.kind = "return"
        out == IF first.kind = "pending" THEN after_insert(strategy, ins) ELSE first
        status == IF out.kind = "HTTPException" THEN out.status
                  ELSE IF out.user = NoUser THEN 401 ELSE 200
    IN  /\ users' = IF inserted THEN Append(users, first.row) ELSE users
        /\ resp' = MkResp("me", ExtractToken(req), 0, AuthResult(out), status,
                          IF out.kind = "HTTPException" THEN NoUser ELSE out.user,
                          out.calls, inserted, NoTok)
        /\ UNCHANGED <<settings, now, procs, probe, encryption_key, call>>

\* github_callback from the code exchange to the redirect, with no other
\* request in between.
CallbackRoute(gh_login, exchanged, fresh) ==
    LET uid == FindByGithubUsername(users, gh_login)
        key == get_encryption_key(encryption_key, fresh)
        row == Callback_new_user(gh_login, settings, key)
        ins == InsertUser(users, row, 1)
        cookie == create_github_oauth_token(gh_login, now)
        reply(status, user, calls, created, c) ==
            [MkResp("callback", NoTok, 0, "skipped", status, user, calls, created, c)
                EXCEPT !.login = gh_login]
    IN  /\ IF ~exchanged
           THEN /\ resp' = reply(500, NoUser, 0, FALSE, NoTok)
                /\ UNCHANGED <<users, encryption_key>>
           ELSE IF /\ settings.app_mode = SINGLE_USER
                   /\ settings.enable_su_auth
                   /\ gh_login # settings.su_github_username
           THEN /\ resp' = reply(403, NoUser, 0, FALSE, NoTok)
                /\ UNCHANGED <<users, encryption_key>>
           ELSE IF uid = 0
           THEN /\ encryption_key' = key
                /\ IF ins.kind = "return"
                   THEN /\ users' = Append(users, row)
                        /\ resp' = reply(302, ins.user, ins.calls, TRUE, cookie)
                   ELSE /\ UNCHANGED users
                        /\ resp' = reply(500, NoUser, ins.calls, FALSE, NoTok)
           ELSE /\ encryption_key' = key
                /\ users' = [users EXCEPT ![uid] = CallbackUpdate(users[uid], row)]
                /\ resp' = reply(302, UserObj(uid, users'[uid]), 2, FALSE, cookie)
        /\ UNCHANGED <<settings, now, procs, probe, call>>

\* POST /api/v1/auth/logout: response.delete_cookie, nothing else.
Logout ==
    /\ resp' = MkResp("logout", NoTok, 0, "skipped", 200, NoUser, 0, FALSE, NoTok)
    /\ UNCHANGED <<settings, users, now, procs, probe, encryption_key, call>>

\* Requests with no session token or a valid one.
CoreRequests ==
    {MkRequest(None, NoTok, NoTok)}
    \cup {MkRequest(None, NoTok, ValidToken(n)) : n \in Names}

CoreDirectories ==
    {<<>>,
     <<MkRow("alice", "alice", GitHubIdOf["alice"], NoSecret, TRUE, TRUE),
       MkRow("bob", "bob", GitHubIdOf["bob"], NoSecret, FALSE, TRUE)>>}

InitCore ==
    /\ settings \in {s \in MainConfigs : SettingsValid(s)}
    /\ users \in CoreDirectories
    /\ now = StartTime
    /\ procs = [p \in Procs |-> IdleProc]
    /\ resp = NoResp
    /\ probe = NoProbe
    /\ encryption_key = "key-1"
    /\ call = NoCall

NextCore ==
    \/ \E op \in UserOps, req \in CoreRequests :
          \E user_id \in (IF op \in CollectionOps THEN {0} ELSE UserIds),
             is_active \in (IF op = "update_user" THEN Updates ELSE {"unset"}) :
              UsersRoute(op, req, user_id, is_active)
    \/ \E req \in CoreRequests : MeRoute(req)
    \/ \E gh_login \in Names, exchanged \in BOOLEAN, fresh \in FreshKeys(encryption_key) :
          CallbackRoute(gh_login, exchanged, fresh)
    \/ Logout

SpecCore == InitCore /\ [][NextCore]_vars

(***************************************************************************)
(* Token extraction over all header and cookie combinations                *)
(***************************************************************************)
\* Authorization schemes: no header, "Bearer <token>", and another scheme
\* ("Basic ...", or "bearer" in lower case, which startswith("Bearer ")
\* rejects alike).
Schemes == {None, "Bearer", "Basic"}

ExtractRequests ==
    {MkRequest(scheme, IF scheme = None THEN NoTok ELSE htok, ctok) :
        scheme \in Schemes,
        htok \in Tokens \cup {NoTok},
        ctok \in {NoTok, BadSigToken} \cup {ValidToken(n) : n \in Names}}

\* strategy.authenticate(request) as a call, INSERT included: the token it
\* extracted, how it ended and the directory calls it made.
Authenticate(req) ==
    LET strategy == get_auth_strategy(settings)
        first == authenticate(strategy, req, users, settings, now)
        ins == InsertUser(users, first.row, first.calls)
        inserted == first.kind = "pending" /\ ins.kind = "return"
        out == IF first.kind = "pending" THEN after_insert(strategy, ins) ELSE first
    IN  /\ users' = IF inserted THEN Append(users, first.row) ELSE users
        /\ call' = MkCall("authenticate", req, now, None,
                          [token |-> ExtractToken(req), kind |-> out.kind,
                           user |-> IF out.kind = "return" THEN out.user ELSE NoUser,
                           calls |-> out.calls])
        /\ UNCHANGED <<settings, now, procs, resp, probe, encryption_key>>

\* Directories for it: also one where the record of the configured admin
\* (or allowed user) has lost is_admin.
ExtractDirectories ==
    CoreDirectories
    \cup {<<MkRow("bob", "bob", GitHubIdOf["bob"], NoSecret, TRUE, TRUE),
            MkRow("alice", "alice", GitHubIdOf["alice"], NoSecret, FALSE, TRUE)>>}

InitExtract ==
    /\ settings \in {SUAuthConfig, MUConfig}
    /\ users \in ExtractDirectories
    /\ now = StartTime
    /\ procs = [p \in Procs |-> IdleProc]
    /\ resp = NoResp
    /\ probe = NoProbe
    /\ encryption_key = "key-1"
    /\ call = NoCall

NextExtract == \E req \in ExtractRequests : Authenticate(req)

SpecExtract == InitExtract /\ [][NextExtract]_vars

(***************************************************************************)
(* Concurrent make-admin and remove-admin requests                         *)
(***************************************************************************)
\* POST /users/{user_id}/make-admin and /remove-admin: the dependencies
\* (the router, require_mu_mode, require_admin with authenticate) as one
\* step and the handler body as another, as for deactivate and activate.
MakeAdmin(p, req, user_id) == UserAdminRequest(p, "make_admin", req, user_id)

RemoveAdmin(p, req, user_id) == UserAdminRequest(p, "remove_admin", req, user_id)

\* make_admin: the handler body.
MakeAdminHandler(p) ==
    LET pr == procs[p]
        h == make_admin(users, pr.user, pr.target)
    IN  /\ pr.pc = "handler" /\ pr.op = "make_admin"
        /\ users' = h.users
        /\ HandlerReply(p, h.status)
        /\ UNCHANGED <<settings, now, probe, encryption_key, call>>

\* remove_admin: the handler body.  current_user is the object require_admin
\* passed on; the target is read from the table now.
RemoveAdminHandler(p) ==
    LET pr == procs[p]
        h == remove_admin(users, pr.user, pr.target)
    IN  /\ pr.pc = "handler" /\ pr.op = "remove_admin"
        /\ users' = h.users
        /\ HandlerReply(p, h.status)
        /\ UNCHANGED <<settings, now, probe, encryption_key, call>>

AdminDirectories ==
    {<<MkRow("alice", "alice", GitHubIdOf["alice"], NoSecret, TRUE, TRUE)>>,
     <<MkRow("alice", "alice", GitHubIdOf["alice"], NoSecret, TRUE, TRUE),
       MkRow("bob", "bob", GitHubIdOf["bob"], NoSecret, TRUE, TRUE)>>}

InitAdmin ==
    /\ settings = MUConfig
    /\ users \in AdminDirectories
    /\ now = StartTime
    /\ procs = [p \in Procs |-> IdleProc]
    /\ resp = NoResp
    /\ probe = NoProbe
    /\ encryption_key = "key-1"
    /\ call = NoCall

NextAdmin ==
    \/ \E p \in Procs, req \in CoreRequests, id \in UserIds : MakeAdmin(p, req, id)
    \/ \E p \in Procs, req \in CoreRequests, id \in UserIds : RemoveAdmin(p, req, id)
    \/ \E p \in Procs : AuthInsert(p)
    \/ \E p \in Procs : MakeAdminHandler(p)
    \/ \E p \in Procs : RemoveAdminHandler(p)

SpecAdmin == InitAdmin /\ [][NextAdmin]_vars

(***************************************************************************)
(* Properties                                                              *)
(***************************************************************************)
ActiveStrategy == get_auth_strategy(settings)

\* The mode matrix, as the specification states it.
MatrixStrategy(s) ==
    CASE s.app_mode = SINGLE_USER /\ ~s.enable_su_auth -> NoAuthStrategy
      [] s.app_mode = SINGLE_USER /\ s.enable_su_auth -> GitHubSUStrategy
      [] s.app_mode = MULTI_USER -> GitHubMUStrategy
      [] OTHER -> ValueError

MatrixRequiresAuth(s) == ~(s.app_mode = SINGLE_USER /\ ~s.enable_su_auth)

\* C1: the strategy selected for any request, over any directory, is the one
\* the mode matrix gives for the configuration alone: NoAuth for single-user
\* without auth, SingleAllowedUser for single-user with auth, MultiUser for
\* multi-user whatever the single-user-auth flag, an error for any other mode.
C1_SelectionFollowsMatrix ==
    probe.endpoint = "status" => probe.strategy = MatrixStrategy(settings)

C1_Witness ==
    /\ probe.endpoint = "status"
    /\ settings.app_mode = MULTI_USER /\ settings.enable_su_auth
    /\ probe.strategy = GitHubMUStrategy
    /\ probe.token = ValidToken("bob")
    /\ users # <<>>

\* C2: requires_auth() of the selected strategy is false exactly for
\* single-user mode without auth, and it is the value settings.requires_auth
\* that GET /config reports.
C2_RequiresAuthMatchesMatrix ==
    /\ (probe.endpoint = "status" /\ probe.strategy # ValueError
            => /\ probe.requires_auth = MatrixRequiresAuth(settings)
               /\ probe.requires_auth = Settings_requires_auth(settings))
    /\ (probe.endpoint = "config" /\ settings.app_mode # OtherMode
            => probe.requires_auth = MatrixRequiresAuth(settings))

C2_Witness ==
    /\ probe.endpoint = "status"
    /\ probe.strategy = GitHubSUStrategy
    /\ probe.requires_auth

\* A session token as the specification classifies it, stated on the token
\* alone: well-formed, signed with the process secret, not yet expired, and
\* carrying a subject.
Usable(token) ==
    /\ token.kind = "jwt" /\ token.sig /\ token.exp > now
    /\ token.sub # None /\ token.sub # ""

\* A step in which a route behind require_auth answers without having had
\* to wait for an INSERT.
ImmediateGuardReply ==
    procs' = procs /\ resp' # resp /\ resp'.op = "require_auth"

RowsOf(name) == {i \in Ids(users) : users[i].github_username = name}

\* C3: under the NoAuth strategy every authenticate call, whatever the
\* request carries, returns the same synthetic user (id 1, username
\* single_user, admin, active), makes no directory call and leaves the
\* directory as it was.
C3_NoAuthSyntheticUser ==
    /\ [](ActiveStrategy = NoAuthStrategy /\ resp.op = "require_auth"
            => /\ resp.auth = "user" /\ resp.status = 200
               /\ resp.user.id = 1 /\ resp.user.username = "single_user"
               /\ resp.user.is_admin /\ resp.user.is_active
               /\ resp.calls = 0 /\ ~resp.created)
    /\ [][ActiveStrategy = NoAuthStrategy /\ ImmediateGuardReply => users' = users]_vars

C3_Witness ==
    /\ ActiveStrategy = NoAuthStrategy
    /\ resp.op = "require_auth" /\ resp.auth = "user"
    /\ resp.token = ValidToken("bob")
    /\ users # <<>>

\* C4: under the SingleAllowedUser strategy a usable token whose subject is
\* not the allowed username is answered Forbidden (403) by authenticate and
\* by require_auth.
C4_DisallowedSubjectForbidden ==
    (/\ ActiveStrategy = GitHubSUStrategy
     /\ resp.op = "require_auth"
     /\ Usable(resp.token)
     /\ resp.token.sub # settings.su_github_username)
        => resp.auth = "forbidden" /\ resp.status = 403

\* C5: under the SingleAllowedUser strategy, from an empty directory, the
\* directory never holds more than one record for the allowed subject, holds
\* exactly one once a call with a usable token for that subject has been
\* answered, that record is admin and active, and a call made when the record
\* exists returns that record and creates nothing.
C5_SingleUserRecord ==
    /\ [](ActiveStrategy = GitHubSUStrategy
            => /\ Cardinality(RowsOf(settings.su_github_username)) <= 1
               /\ \A i \in RowsOf(settings.su_github_username) :
                      users[i].is_admin /\ users[i].is_active
               /\ ((/\ resp.op = "require_auth" /\ Usable(resp.token)
                    /\ resp.token.sub = settings.su_github_username)
                      => Cardinality(RowsOf(settings.su_github_username)) = 1)
               /\ (resp.op = "require_auth" /\ resp.auth = "user"
                      => /\ resp.user.id \in RowsOf(settings.su_github_username)
                         /\ resp.user.is_admin /\ resp.user.is_active))
    /\ [][(/\ ActiveStrategy = GitHubSUStrategy
           /\ ImmediateGuardReply
           /\ Usable(resp'.token)
           /\ resp'.token.sub = settings.su_github_username
           /\ RowsOf(settings.su_github_username) # {})
            => /\ resp'.auth = "user"
               /\ resp'.user.id \in RowsOf(settings.su_github_username)
               /\ ~resp'.created
               /\ users' = users]_vars

C5_Witness ==
    /\ ActiveStrategy = GitHubSUStrategy
    /\ resp.op = "require_auth" /\ resp.auth = "user" /\ ~resp.created
    /\ Len(users) = 1 /\ users[1].github_token = NoSecret

\* C6: both OAuth strategies fail closed.  A request with no token, or a
\* token that is malformed, badly signed, expired or without subject, gets
\* "no user" from authenticate and 401 from require_auth, with no directory
\* call and no change to the directory; so does a request whose INSERT the
\* directory rejects.
C6_FailClosed ==
    /\ []((/\ ActiveStrategy \in {GitHubSUStrategy, GitHubMUStrategy}
           /\ resp.op = "require_auth"
           /\ ~Usable(resp.token))
            => /\ resp.auth = "none" /\ resp.status = 401
               /\ resp.calls = 0 /\ ~resp.created)
    /\ [][(/\ ActiveStrategy \in {GitHubSUStrategy, GitHubMUStrategy}
           /\ ImmediateGuardReply
           /\ ~Usable(resp'.token))
            => users' = users]_vars
    /\ [][\A p \in Procs :
            (/\ procs[p].pc = "insert" /\ procs[p].op = "require_auth"
             /\ procs'[p].pc = "idle"
             /\ \E i \in Ids(users) : users[i].username = procs[p].row.username)
                => /\ resp'.auth = "none" /\ resp'.status = 401
                   /\ users' = users]_vars

C6_Witness ==
    /\ ActiveStrategy = GitHubMUStrategy
    /\ resp.op = "require_auth" /\ resp.status = 401
    /\ resp.token = ExpiredToken
    /\ users # <<>>

C8_DeactivatedForbidden ==
    /\ [][(/\ ActiveStrategy = GitHubMUStrategy
           /\ ImmediateGuardReply
           /\ Usable(resp'.token)
           /\ \E i \in RowsOf(resp'.token.sub) : ~users[i].is_active)
            => resp'.auth = "forbidden" /\ resp'.status = 403]_vars
    /\ [](ActiveStrategy = GitHubMUStrategy /\ resp.op = "require_auth"
          /\ resp.auth = "user" => resp.user.is_active)
    /\ [][\A p \in Procs :
            procs[p].pc = "callback" /\ procs'[p].pc # "callback"
                => \A i \in Ids(users) : users'[i].is_active = users[i].is_active]_vars

C8_Witness ==
    /\ ActiveStrategy = GitHubMUStrategy
    /\ resp.op = "require_auth" /\ resp.auth = "forbidden" /\ resp.status = 403
    /\ resp.token = ValidToken("bob")
    /\ \E i \in RowsOf("bob") : ~users[i].is_active /\ users[i].github_token # NoSecret

\* C9: whatever the interleaving of the lookups and inserts of concurrent
\* first logins, no two records ever carry the same external username or the
\* same external id.
C9_OneRecordPerIdentity ==
    \A i, j \in Ids(users) :
        i # j => /\ users[i].github_username # users[j].github_username
                 /\ (users[i].github_id # NoId => users[i].github_id # users[j].github_id)

C9_Witness ==
    /\ ActiveStrategy = GitHubMUStrategy
    /\ resp.op = "require_auth" /\ resp.calls = 2 /\ ~resp.created
    /\ \E p \in Procs : procs[p].pc = "idle"
    /\ Cardinality(RowsOf(resp.token.sub)) = 1

\* C10: a first-login call whose INSERT the uniqueness constraint rejects
\* returns the record the winner created.
C10_LoserReturnsWinnersRecord ==
    (/\ ActiveStrategy \in {GitHubSUStrategy, GitHubMUStrategy}
     /\ resp.op = "require_auth"
     /\ resp.calls = 2 /\ ~resp.created)
        => /\ resp.auth = "user" /\ resp.status = 200
           /\ resp.user.id \in RowsOf(resp.token.sub)

\* The expiry the codec's contract gives a token: issue time plus ttl, the
\* ttl being the configured default when none is passed.
ContractExpiry(a) ==
    a.issued + (IF a.expires_delta = NoDelta THEN ACCESS_TOKEN_EXPIRE_MINUTES
                ELSE a.expires_delta)

\* C11: decoding a token made by create_access_token (with the default or a
\* positive ttl) succeeds, with the claims that were passed in, exactly when
\* the clock is before issue time plus ttl, and fails at every time at or
\* after the expiry; a token whose signature does not match the signing
\* secret always fails.
C11_RoundTripUntilExpiry ==
    call.fn = "decode_access_token" /\ call.arg.expires_delta # 0 =>
        /\ (call.arg.token.sig =>
                (call.result.ok <=> call.at < ContractExpiry(call.arg)))
        /\ (call.result.ok => call.result.sub = call.arg.sub)
        /\ (~call.arg.token.sig => ~call.result.ok)

\* C12: decrypt_token applied to what encrypt_token returned for a non-empty
\* x, under the key it was sealed with, returns x; decrypt_token never
\* raises, and returns the empty string for empty input, for corrupted
\* input and for a text sealed under another key.
C12_VaultRoundTrip ==
    call.fn = "decrypt_token" =>
        LET a == call.arg
        IN  /\ call.result # InvalidTokenRaised
            /\ (a.plain # "" /\ a.stored # Garbage /\ call.key = a.sealed_with
                    => call.result = a.plain)
            /\ (a.stored = NoSecret => call.result = "")
            /\ (a.stored = Garbage => call.result = "")
            /\ (a.stored # NoSecret /\ call.key # a.sealed_with => call.result = "")

C12_Witness ==
    /\ call.fn = "decrypt_token"
    /\ call.arg.plain = "gho_bob" /\ call.arg.stored # Garbage
    /\ call.key # call.arg.sealed_with
    /\ call.result = ""

\* A GitHub route was answered after the resolver ran (authenticate did not
\* end the request with an HTTPException).
Resolved == resp.op \in GitHubRoutes /\ resp.auth # "forbidden"

DefaultRuleApplies(s) ==
    s.app_mode = SINGLE_USER /\ ~s.enable_su_auth /\ Truthy(s.default_github_token)

\* The plaintext of a stored token the key in use opens, "" otherwise.
Opens(stored) ==
    IF stored # NoSecret /\ stored[1] = "fernet" /\ stored[2] = encryption_key
    THEN stored[3] ELSE ""

\* C13: in single-user mode with auth disabled and a default token
\* configured, the resolver returns the default token for every request,
\* whatever session token or X-GitHub-Token header it carries and whatever
\* the directory stores, and with the user being the virtual one; in every
\* other mode a configured default token is never what the resolver returns.
C13_DefaultTokenRule ==
    Resolved =>
        /\ (DefaultRuleApplies(settings)
                => /\ resp.credential = settings.default_github_token
                   /\ resp.calls = 0)
        /\ ((/\ ~(settings.app_mode = SINGLE_USER /\ ~settings.enable_su_auth)
             /\ Truthy(settings.default_github_token))
                => resp.credential # settings.default_github_token)

C13_Witness ==
    /\ Resolved /\ DefaultRuleApplies(settings)
    /\ resp.xtoken = "ghp_header" /\ resp.token = BadSigToken
    /\ \E i \in Ids(users) : users[i].github_token # NoSecret
    /\ resp.credential = "tok-A"

\* C14: with a default token configured outside the default rule, a resolved
\* user with a stored token the vault opens and an X-GitHub-Token header
\* present, the resolver returns the stored token; the header is returned
\* only when the resolved user has no stored token (or there is no user),
\* and then it is returned; with no source available the result is none.
C14_ResolverPrecedence ==
    Resolved /\ ~DefaultRuleApplies(settings) =>
        /\ (resp.user # NoUser /\ Opens(resp.user.github_token) # ""
                => /\ resp.credential = Opens(resp.user.github_token)
                   /\ resp.credential # settings.default_github_token
                   /\ resp.credential # resp.xtoken)
        /\ (Truthy(resp.xtoken) /\ resp.credential = resp.xtoken
                => resp.user = NoUser \/ resp.user.github_token = NoSecret)
        /\ ((/\ resp.user = NoUser \/ resp.user.github_token = NoSecret
             /\ Truthy(resp.xtoken))
                => resp.credential = resp.xtoken)
        /\ ((/\ resp.user = NoUser \/ resp.user.github_token = NoSecret
             /\ ~Truthy(resp.xtoken))
                => resp.credential = None)

C14_Witness ==
    /\ Resolved /\ settings.app_mode = MULTI_USER
    /\ settings.default_github_token = "tok-A"
    /\ resp.xtoken = "ghp_header"
    /\ resp.user # NoUser /\ resp.user.github_token # NoSecret
    /\ resp.credential = "gho_alice"

\* C15: a route that mandates a GitHub credential answers 400 when the
\* resolver yields none or an empty credential, and does not call the GitHub
\* client then.
C15_CredentialRequired ==
    (/\ Resolved
     /\ resp.op \in MandatoryRoutes \cup {"get_github_user"}
     /\ ~Truthy(resp.credential))
        => resp.status = 400 /\ ~resp.client

\* The record authenticate resolved for the request resp answers.
ResolvedRow == users[resp.user.id]

\* C16: require_auth returns the synthetic user when the active strategy
\* does not require auth; otherwise it returns the user authenticate
\* resolved, and when none was resolved it answers 401 with the strategy's
\* login URL in the detail if the strategy has one; a request it lets
\* through always has a user.
C16_RequireAuthGuard ==
    resp.op = "require_auth" =>
        /\ (~requires_auth(ActiveStrategy)
                => resp.status = 200 /\ resp.user = VirtualUser)
        /\ (requires_auth(ActiveStrategy) /\ resp.auth = "user"
                => /\ resp.status = 200
                   /\ resp.user.id \in RowsOf(resp.token.sub)
                   /\ resp.user = UserObj(resp.user.id, ResolvedRow))
        /\ (resp.auth = "none"
                => /\ resp.status = 401
                   /\ (Truthy(settings.github_client_id) /\ ActiveStrategy = GitHubSUStrategy
                          => resp.login_url = "authorize?state=su_mode")
                   /\ (Truthy(settings.github_client_id) /\ ActiveStrategy = GitHubMUStrategy
                          => resp.login_url = "authorize?state=mu_mode")
                   /\ (~Truthy(settings.github_client_id) => resp.login_url = None))
        /\ (resp.status = 200 <=> resp.user # NoUser)

C16_Witness ==
    /\ resp.op = "require_auth" /\ resp.status = 401
    /\ ActiveStrategy = GitHubSUStrategy
    /\ resp.login_url = None
    /\ resp.token = ExpiredToken

\* C17: require_admin lets a request through only with a resolved user whose
\* is_admin is true; a resolved user whose is_admin is false gets 403, no
\* resolved user gets 401, and the NoAuth synthetic user always passes.
C17_RequireAdminGuard ==
    resp.op = "require_admin" =>
        /\ (resp.status = 200 => resp.user # NoUser /\ resp.user.is_admin)
        /\ (resp.status = 200 /\ ActiveStrategy # NoAuthStrategy
                => ResolvedRow.is_admin)
        /\ (resp.auth = "user" /\ ActiveStrategy # NoAuthStrategy
                => \A i \in RowsOf(resp.token.sub) :
                       ~users[i].is_admin => resp.status = 403 /\ resp.user = NoUser)
        /\ (resp.auth = "none" => resp.status = 401)
        /\ (ActiveStrategy = NoAuthStrategy
                => resp.status = 200 /\ resp.user = VirtualUser)

C17_Witness ==
    /\ resp.op = "require_admin" /\ resp.status = 403 /\ resp.auth = "user"
    /\ resp.token = ValidToken("bob")
    /\ \E i \in RowsOf("bob") : users[i].is_active /\ ~users[i].is_admin

\* What a request for a route that does not exist gets: 404 before any
\* dependency has run.
MissingRoute ==
    /\ resp.status = 404 /\ resp.auth = "skipped" /\ resp.calls = 0
    /\ resp.user = NoUser /\ ~resp.created
    /\ resp.login_url = None /\ resp.cookie = NoTok

C19_OAuthConfigInvariant ==
    /\ ((/\ settings.app_mode \in {SINGLE_USER, MULTI_USER}
          /\ Settings_requires_auth(settings))
         => Truthy(settings.github_client_id) /\ Truthy(settings.github_client_secret))
    /\ (resp.op = "login" => resp.status # 500)

\* The identity columns of a record.
Identity(row) == <<row.username, row.github_username, row.github_id>>

\* C20: after any sequence of callback logins, authenticate calls and
\* administrative operations no two records share a username, an external
\* username or an external id; records keep their id and identity columns;
\* and every successful authentication or callback login of a subject
\* returns the id of the one record carrying that subject, so the same id
\* as the first one.
C20_IdentityStableAndUnique ==
    /\ [](\A i, j \in Ids(users) :
            i # j => /\ users[i].username # users[j].username
                     /\ (users[i].github_username # None
                            => users[i].github_username # users[j].github_username)
                     /\ (users[i].github_id # NoId
                            => users[i].github_id # users[j].github_id))
    /\ [][/\ Len(users') >= Len(users)
           /\ \A i \in Ids(users) : Identity(users'[i]) = Identity(users[i])]_vars
    /\ []((/\ ActiveStrategy \in {GitHubSUStrategy, GitHubMUStrategy}
            /\ resp.op # "callback"
            /\ resp.auth = "user" /\ resp.user # NoUser)
           => RowsOf(resp.token.sub) = {resp.user.id})
    /\ [](resp.op = "callback" /\ resp.status = 302
           => /\ RowsOf(resp.cookie.sub) = {resp.user.id}
              /\ resp.user.github_username = resp.cookie.sub)

C20_Witness ==
    /\ ActiveStrategy = GitHubMUStrategy
    /\ resp.op = "require_auth" /\ resp.status = 200 /\ ~resp.created
    /\ resp.token = ValidToken("alice")
    /\ resp.user.is_admin /\ resp.user.id = 2
    /\ Len(users) = 2
    /\ \E p \in Procs : procs[p].pc = "callback" /\ procs[p].user.id = 2

\* C21: no core operation (authenticate, callback, update, activate,
\* deactivate, make-admin, remove-admin, logout) removes a record: every id
\* of the directory is still there after the operation, with the same
\* identity, and a deactivation that succeeds changes nothing of its target
\* but is_active, which becomes false.
C21_NeverHardDeleted ==
    [][/\ Ids(users) \subseteq Ids(users')
       /\ \A i \in Ids(users) : users'[i].username = users[i].username
       /\ (resp' # resp /\ resp'.op = "deactivate_user" /\ resp'.status = 200
             => \A i \in Ids(users) :
                    users'[i] = IF i = resp'.target
                                THEN [users[i] EXCEPT !.is_active = FALSE]
                                ELSE users[i])]_vars

C21_Witness ==
    /\ resp.op = "deactivate_user" /\ resp.status = 200
    /\ Len(users) = 2
    /\ ~users[resp.target].is_active
    /\ users[resp.target].github_token # NoSecret

\* The claims a session token may carry: subject, external id, issued-at,
\* expiry, token kind.
IdentityClaims == {"sub", "github_id", "iat", "exp", "type"}

\* C22: the session token the login callback issues carries identity claims
\* only and never the GitHub access token, which is kept only sealed in the
\* user record.
C22_SessionTokenIdentityOnly ==
    (resp.op = "callback" /\ resp.status = 302)
        => /\ resp.cookie.claims \subseteq IdentityClaims
           /\ resp.cookie.github_token = None
           /\ users[resp.user.id].github_token
                = encrypt_token(AccessTokenOf[resp.user.github_username], encryption_key)

\* The login is refused by the single-user check of the callback.
Disallowed(gh_login) ==
    /\ settings.app_mode = SINGLE_USER /\ settings.enable_su_auth
    /\ gh_login # settings.su_github_username

\* C23: a callback that succeeds for a login with a record rewrites only
\* the stored sealed token of that record (id, is_admin, is_active and all
\* other records unchanged); for a login without a record it adds exactly
\* one record; in both cases it sets the access_token cookie and redirects.
\* A login the single-user check refuses never gets the redirect: no record
\* is created or changed and no cookie is set, and 403 is the answer the
\* callback itself gives.
C23_CallbackFrame ==
    [][resp'.op = "callback" =>
        LET uid == FindByGithubUsername(users, resp'.login)
        IN  /\ (resp'.status = 302 =>
                  /\ resp'.cookie = create_github_oauth_token(resp'.login, now)
                  /\ resp'.user.github_username = resp'.login
                  /\ IF uid # 0
                     THEN /\ resp'.user.id = uid /\ ~resp'.created
                          /\ users' = [users EXCEPT ![uid].github_token =
                                          encrypt_token(AccessTokenOf[resp'.login],
                                                        encryption_key')]
                     ELSE /\ resp'.user.id = Len(users) + 1 /\ resp'.created
                          /\ Len(users') = Len(users) + 1
                          /\ SubSeq(users', 1, Len(users)) = users)
            /\ (resp'.status # 302 => users' = users /\ resp'.cookie = NoTok)
            /\ (Disallowed(resp'.login) => resp'.status \in {403, 500})
            /\ (resp'.status = 403 => Disallowed(resp'.login))]_vars

C23_Witness ==
    /\ resp.op = "callback" /\ resp.status = 302 /\ ~resp.created
    /\ resp.login = "bob"
    /\ ~users[resp.user.id].is_active /\ ~users[resp.user.id].is_admin
    /\ users[resp.user.id].github_token # NoSecret
    /\ settings.app_mode = MULTI_USER

\* The request carries "Authorization: Bearer <token>" with a token.
HasBearer(req) == req.scheme = "Bearer" /\ req.authorization.kind # "absent"

\* C24: in both OAuth strategies the token of an "Authorization: Bearer"
\* header is the one used and the access_token cookie is read only when no
\* bearer token was extracted; so an invalid bearer token with a valid
\* cookie resolves no user, and a request with neither returns None with no
\* directory call.
C24_BearerBeforeCookie ==
    call.fn = "authenticate" =>
        LET req == call.arg
            res == call.result
        IN  /\ res.token = IF HasBearer(req) THEN req.authorization ELSE req.cookie
            /\ ((HasBearer(req) /\ ~decode_access_token(req.authorization, call.at).ok)
                  => res.user = NoUser /\ res.calls = 0)
            /\ (res.user # NoUser => res.user.github_username = res.token.sub)
            /\ ((/\ ~HasBearer(req) /\ decode_access_token(req.cookie, call.at).ok
                  /\ settings.app_mode = MULTI_USER /\ res.kind = "return")
                  => res.user.github_username = req.cookie.sub)
            /\ ((~HasBearer(req) /\ req.cookie.kind = "absent")
                  => res.kind = "return" /\ res.user = NoUser /\ res.calls = 0)

C24_Witness ==
    /\ call.fn = "authenticate"
    /\ call.arg = MkRequest("Bearer", BadSigToken, ValidToken("alice"))
    /\ call.result.user = NoUser
    /\ RowsOf("alice") # {}
    /\ settings.app_mode = MULTI_USER

\* C25: no user-management request changes the record of the user it is
\* authenticated as from is_active = true to is_active = false.
C25_NoSelfDeactivation ==
    [][(/\ resp'.op \in UserOps
        /\ resp'.user # NoUser
        /\ resp'.user.id \in Ids(users)
        /\ users[resp'.user.id].is_active)
       => users'[resp'.user.id].is_active]_vars

Admins(dir) == {i \in Ids(dir) : dir[i].is_admin}

\* C27: in multi-user mode, once a record is admin, no interleaving of
\* make-admin and remove-admin requests leaves the directory without an
\* admin record.
C27_AdminSetNeverEmptied ==
    [][Admins(users) # {} => Admins(users') # {}]_vars

\* C28: in both OAuth strategies authenticate for a subject that has a
\* record changes no field of any record and returns the record as stored:
\* a record without is_admin stays so even when its username is the
\* configured admin (or allowed) username.
C28_AuthenticateReadOnly ==
    [][LET uid == FindByGithubUsername(users, call'.result.token.sub)
       IN  (call'.fn = "authenticate" /\ uid # 0)
            => /\ users' = users
               /\ (call'.result.user # NoUser
                     => call'.result.user = UserObj(uid, users[uid]))]_vars

C28_Witness ==
    /\ call.fn = "authenticate"
    /\ settings.app_mode = MULTI_USER
    /\ call.result.user.github_username = settings.mu_admin_github_username
    /\ ~call.result.user.is_admin
    /\ \E i \in RowsOf(settings.mu_admin_github_username) : ~users[i].is_admin

\* A GitHub route answered for a request that carried no session token.
NoSession == resp.op \in GitHubRoutes /\ resp.token.kind = "absent"

\* The routes that call the GitHub client without a credential.
ReadRoutes == OptionalRoutes \cup {"get_github_user(username)"}

\* On a GitHub route the session leads to a rejection only as the 403 of
\* authenticate for a deactivated identity; no guard answers 401 with a
\* login URL.
OnlyForbiddenRejects ==
    resp.op \in GitHubRoutes =>
        /\ resp.login_url = None
        /\ (resp.auth = "forbidden"
              => /\ resp.status = 403 /\ ~resp.client
                 /\ \E i \in RowsOf(resp.token.sub) : ~users[i].is_active)
        /\ (resp.auth # "forbidden" /\ ~resp.client
              => ~Truthy(resp.credential) /\ resp.op \notin ReadRoutes)

C30_UndecryptableStopsAtStored ==
    (/\ Resolved /\ ~DefaultRuleApplies(settings)
     /\ resp.user # NoUser
     /\ resp.user.github_token # NoSecret
     /\ Opens(resp.user.github_token) = "")
        => /\ resp.credential = ""
           /\ resp.credential # resp.xtoken
           /\ require_github_token(resp.credential) = 400

C30_Witness ==
    /\ Resolved /\ settings.app_mode = MULTI_USER
    /\ resp.user.github_token = Garbage
    /\ resp.xtoken = "ghp_header"
    /\ resp.credential = ""
    /\ resp.op = "create_repository" /\ ~resp.client

====
